---------------------------- MODULE Spec2Model ----------------------------
(***************************************************************************)
(* A model of the infinite-scroll gallery: the useInfiniteScroll hook      *)
(* (src/src/useInfiniteScroll.ts) and the App component that paginates     *)
(* with it (src/src/App.tsx).                                              *)
(*                                                                         *)
(* The program is event driven and single threaded.  Every step of the     *)
(* model is one task of the event loop, run to completion:                 *)
(*   - a render of the component (the closure of that render captures      *)
(*     page, loading, the callback and the enabled argument),              *)
(*   - the flush of the passive effects of the committed render (all       *)
(*     cleanups, then all effect bodies in the order they are declared),   *)
(*   - the browser sampling the observed targets (one entry is queued per  *)
(*     change of isIntersecting, and one for the first sample),            *)
(*   - the browser notifying an observer (the code's observer callback     *)
(*     runs on the list of queued entries),                                *)
(*   - the settling of the network request or of the body parse            *)
(*     (the continuation of fetchImages after an await).                   *)
(* State updates (setPage, setLoading, setImages) are applied to the       *)
(* component's state when they are enqueued and become visible to the      *)
(* closures only with the next render, which is how functional and plain   *)
(* updates of one batch behave.                                            *)
(***************************************************************************)
EXTENDS Integers, Sequences, FiniteSets, TLC

\* Bounds of the model.
MaxCalls == 2
MaxQueue == 2
MaxStale == 1

\* The element the App attaches the handle to (<div ref={loaderRef}/>), and
\* the elements a host component may attach; 0 stands for null.
Sentinel == 1
Elements == {1, 2}
NoElement == 0

\* The bodies the provider may answer with (data.photos): photo ids, in the
\* order returned.  Pages may overlap and may be empty.
Responses == {<< >>, <<1>>, <<1, 2>>}

VARIABLES
    images,     \* App state: the item collection (useState<Photo[]>([]))
    page,       \* App state: the page number (useState(1))
    loading,    \* App state: the in-flight flag (useState(false))
    dirty,      \* a state update is enqueued and a render is scheduled
    rPage,      \* page as captured by the committed render
    rLoading,   \* loading as captured by the committed render
    rEnabled,   \* the enabled argument the committed render gave the hook
    rCb,        \* the callback the committed render gave the hook (see below)
    effPending, \* the committed render's passive effects have not run yet
    fetchDep,   \* [page] as of the last run of the fetch effect (0: never ran)
    hookDeps,   \* enabled as of the last run of the hook's effect (has: it ran)
    cleanup,    \* the cleanup closure the hook's effect returned last
    refCur,     \* ref.current of the hook's handle
    mounted,    \* the component owning the hook is mounted
    observers,  \* the IntersectionObservers that observe a target
    stale,      \* unobserved observers whose pending notification calls back
    visible,    \* the elements that intersect the viewport right now
    inflight,   \* the requests issued and not settled
    requested,  \* history: the page numbers requested, in order
    settled,    \* history: the requests settled, in order, with their outcome
    calls,      \* history: the number of invocations of the trigger callback
    busyCall,   \* history: some invocation came while a request was in flight
                \* or while the in-flight flag was set
    skipped,    \* history: the pages whose fetch effect returned at its guard
    threw       \* the hook's effect or its cleanup has thrown

vars == << images, page, loading, dirty, rPage, rLoading, rEnabled, rCb,
           effPending, fetchDep, hookDeps, cleanup, refCur, mounted,
           observers, stale, visible, inflight, requested, settled, calls,
           busyCall, skipped, threw >>

\* The variables only App's actions change.
appVars == << images, page, loading, dirty, rPage, rLoading, fetchDep,
              inflight, requested, settled, busyCall, skipped >>

-----------------------------------------------------------------------------
(* The platform's IntersectionObserver, as the hook uses it.               *)

ObserverIds == 0 .. 3

\* The least identity no observer of obs has.
FreshId(obs) ==
    CHOOSE i \in ObserverIds :
        /\ \A o \in obs : o.id # i
        /\ \A j \in ObserverIds : (\A o \in obs : o.id # j) => i <= j

\* new IntersectionObserver(cb) followed by observer.observe(el): nothing is
\* known about the target yet (prev) and nothing is queued.
\* Two fields are history: after tells what the run of the effect before the
\* one that made the observer was ("mount": there was none, "off": it was
\* disabled, "on": it was enabled), and again tells that the target was found
\* changed since its first sample.
NewObserver(id, el, after) ==
    [id |-> id, target |-> el, prev |-> "none", queue |-> << >>,
     after |-> after, again |-> FALSE]

\* A slip: the callback is invoked for the entry that leaves the viewport.
FiresOnLeave(queue) == queue # << >> /\ ~Head(queue)

\* The observer callback: ([entry]) => { if (entry.isIntersecting) callback() }
\* looks at the first entry of the list it is given.
Fires(queue) == queue # << >> /\ Head(queue)

\* observer.unobserve(el): the registration of el with observer id is removed.
\* An observer without a target observes nothing.
Unobserve(obs, id, el) == {o \in obs : ~(o.id = id /\ o.target = el)}

\* The entries observer id had queued for el and not delivered when el was
\* unobserved.  The standard's unobserve steps leave them queued, so that
\* the next notification still hands them to the observer callback; some
\* engines drop them.  Which one happens is the platform's choice (keep).
\* Such a notification matters only if the observer callback calls back.
LeftQueued(obs, id, el, keep) ==
    Cardinality({o \in obs : /\ o.id = id
                             /\ o.target = el
                             /\ keep
                             /\ Fires(o.queue)})

\* observer.observe(x) and observer.unobserve(x) throw a TypeError when x is
\* not an Element.
TypeErrorOn(el) == el = NoElement

\* One sample of a target by the browser: an entry is queued when
\* isIntersecting differs from the previous sample, and for the first sample.
Sample(o, vis) ==
    LET now == IF o.target \in vis THEN "in" ELSE "out" IN
    IF o.prev = now THEN o
    ELSE [o EXCEPT !.prev = now, !.queue = Append(@, o.target \in vis),
                   !.again = (o.prev # "none")]

-----------------------------------------------------------------------------
(* useInfiniteScroll: the effect of the hook and its cleanup.              *)

NoCleanup == [has |-> FALSE, el |-> NoElement, id |-> 0]

\* A slip: the effect returns no cleanup.
RunNoCleanup(obs, cl) == obs

\* return () => { if (el) observer.unobserve(el); }
\* el and observer are the ones the effect body captured.
RunCleanup(obs, cl) ==
    IF cl.has /\ cl.el # NoElement
    THEN Unobserve(obs, cl.id, cl.el)
    ELSE obs

\* The cleanup throws when it hands unobserve something that is no Element.
CleanupThrows(cl) == cl.has /\ cl.el # NoElement /\ TypeErrorOn(cl.el)

\* The notifications left pending by that cleanup.
CleanupLeaves(obs, cl, keep) ==
    IF cl.has /\ cl.el # NoElement
    THEN LeftQueued(obs, cl.id, cl.el, keep)
    ELSE 0

\* A slip: observer.observe(el) without if (el).  A body that throws returns
\* no cleanup.
EffectBodyUnguarded(obs, enabled, el, after) ==
    IF ~enabled
    THEN [obs |-> obs, cl |-> NoCleanup, err |-> FALSE]
    ELSE LET id == FreshId(obs) IN
         IF TypeErrorOn(el)
         THEN [obs |-> obs, cl |-> NoCleanup, err |-> TRUE]
         ELSE [obs |-> obs \cup {NewObserver(id, el, after)},
               cl  |-> [has |-> TRUE, el |-> el, id |-> id],
               err |-> FALSE]

\* The effect body: if (!enabled) return; const observer = new ...;
\* const el = ref.current; if (el) observer.observe(el); return cleanup.
\* err tells that the body threw.
EffectBody(obs, enabled, el, after) ==
    IF ~enabled
    THEN [obs |-> obs, cl |-> NoCleanup, err |-> FALSE]
    ELSE LET id == FreshId(obs) IN
         [obs |-> IF el # NoElement
                  THEN obs \cup {NewObserver(id, el, after)}
                  ELSE obs,
          cl  |-> [has |-> TRUE, el |-> el, id |-> id],
          err |-> (el # NoElement /\ TypeErrorOn(el))]

\* What the last run of the effect was (history, for NewObserver).
LastRun ==
    IF ~hookDeps.has THEN "mount" ELSE IF hookDeps.en THEN "on" ELSE "off"

\* Callbacks are functions and are compared by identity with the callback of
\* the effect's last run only.  So the model names the callback of the last
\* run SameCallback, and any other function NewCallback.
SameCallback == 0
NewCallback == 1

\* The effect runs after a commit whose [callback, enabled] differ from the
\* ones of its last run, and after the first commit.
HookDepsChanged ==
    \/ ~hookDeps.has
    \/ rCb # SameCallback
    \/ hookDeps.en # rEnabled

\* The hook's part of a flush of passive effects: the cleanup of the previous
\* run, then the body with the committed render's arguments.
HookEffect(keep) ==
    IF HookDepsChanged
    THEN LET res == EffectBody(RunCleanup(observers, cleanup),
                               rEnabled, refCur, LastRun) IN
         /\ observers' = res.obs
         /\ stale' = stale + CleanupLeaves(observers, cleanup, keep)
         /\ cleanup' = res.cl
         /\ hookDeps' = [has |-> TRUE, en |-> rEnabled]
         /\ rCb' = SameCallback
         /\ threw' = (threw \/ CleanupThrows(cleanup) \/ res.err)
    ELSE UNCHANGED << observers, stale, cleanup, hookDeps, rCb, threw >>

\* The platform may leave a notification pending only while the model has
\* room for one more.
KeepChoices == {k \in BOOLEAN : k => stale < MaxStale}

\* The browser notifies observer o: its queued entries are taken and handed to
\* the observer callback.
Deliver(o) ==
    /\ o.queue # << >>
    /\ observers' = (observers \ {o}) \cup {[o EXCEPT !.queue = << >>]}

-----------------------------------------------------------------------------
(* The browser.                                                            *)

\* The user scrolls, or the layout changes: element e enters or leaves the
\* viewport.
Scroll(e) ==
    /\ visible' = IF e \in visible THEN visible \ {e} ELSE visible \cup {e}
    /\ UNCHANGED << threw, appVars, page, calls, rEnabled, rCb, effPending,
                    hookDeps, cleanup, refCur, mounted, observers, stale >>

\* The browser's "update intersection observations" step of a frame.
UpdateObservations ==
    LET next == {Sample(o, visible) : o \in observers} IN
    /\ next # observers
    /\ \A o \in next : Len(o.queue) <= MaxQueue
    /\ observers' = next
    /\ UNCHANGED << threw, appVars, page, calls, rEnabled, rCb, effPending,
                    hookDeps, cleanup, refCur, mounted, stale, visible >>

-----------------------------------------------------------------------------
(* App: the gallery component.                                             *)

\* fetchImages past its guard: setLoading(true), then the request for the
\* page of the render the effect belongs to.
Issue ==
    /\ loading' = TRUE
    /\ dirty' = (dirty \/ ~loading)
    /\ inflight' = inflight \cup
           {[n |-> Len(requested) + 1, page |-> rPage, stage |-> "fetch"]}
    /\ requested' = Append(requested, rPage)

\* A slip: fetchImages without its guard.
FetchImagesUnguarded == Issue /\ UNCHANGED skipped

\* fetchImages reads the loading of the render it was created in:
\* if (loading) return.
FetchImages ==
    IF rLoading
    THEN /\ skipped' = skipped \cup {rPage}
         /\ UNCHANGED << loading, dirty, inflight, requested >>
    ELSE Issue /\ UNCHANGED skipped

\* A slip: the fetch effect without its dependency array runs after every
\* render.
FetchEffectEveryRender ==
    /\ fetchDep' = rPage
    /\ FetchImages

\* The fetch effect, useEffect(() => { fetchImages() }, [page]): it runs when
\* the committed page differs from the one of its last run.
FetchEffect ==
    IF fetchDep = rPage
    THEN UNCHANGED << loading, dirty, inflight, requested, fetchDep,
                      skipped >>
    ELSE /\ fetchDep' = rPage
         /\ FetchImages

\* The passive effects of the committed render of App: the cleanups, then the
\* bodies in the order the effects are declared.
FlushEffects ==
    /\ effPending
    /\ effPending' = FALSE
    /\ FetchEffect
    /\ \E keep \in KeepChoices : HookEffect(keep)
    /\ UNCHANGED << images, page, rPage, rLoading, rEnabled, refCur,
                    mounted, visible, settled, calls, busyCall >>

\* A render of App and its commit.  The arrow function given to the hook is
\* a new function in every render; the hook is enabled with !loading.
Render ==
    /\ dirty
    /\ ~effPending
    /\ dirty' = FALSE
    /\ rPage' = page
    /\ rLoading' = loading
    /\ rEnabled' = ~loading
    /\ rCb' = NewCallback
    /\ effPending' = TRUE
    /\ UNCHANGED << threw, skipped, images, page, loading, fetchDep, hookDeps, cleanup,
                    refCur, mounted, observers, stale, visible, inflight,
                    requested, settled, calls, busyCall >>

\* A slip: setPage(page + 1), with the page of the render the callback was
\* created in.
LoaderCallbackOfRender ==
    /\ calls < MaxCalls
    /\ page' = rPage + 1
    /\ dirty' = TRUE
    /\ calls' = calls + 1
    /\ busyCall' = (busyCall \/ loading \/ inflight # {})

\* The trigger callback of App: () => setPage((prev) => prev + 1).
LoaderCallback ==
    /\ calls < MaxCalls
    /\ page' = page + 1
    /\ dirty' = TRUE
    /\ calls' = calls + 1
    /\ busyCall' = (busyCall \/ loading \/ inflight # {})

\* The browser notifies one of App's observers.
Notify ==
    \E o \in observers :
        /\ Deliver(o)
        /\ IF Fires(o.queue)
           THEN LoaderCallback
           ELSE UNCHANGED << page, dirty, calls, busyCall >>
        /\ UNCHANGED << threw, skipped, images, loading, rPage, rLoading, rEnabled, rCb,
                        effPending, fetchDep, hookDeps, cleanup, refCur,
                        mounted, stale, visible, inflight, requested,
                        settled >>

\* The browser delivers the entries an observer of App had queued when it was
\* unobserved.
NotifyStale ==
    /\ stale > 0
    /\ stale' = stale - 1
    /\ LoaderCallback
    /\ UNCHANGED << threw, skipped, images, loading, rPage, rLoading, rEnabled, rCb,
                    effPending, fetchDep, hookDeps, cleanup, refCur, mounted,
                    observers, visible, inflight, requested, settled >>

Settle(f, ok, data) ==
    /\ inflight' = inflight \ {f}
    /\ settled' = Append(settled, [page |-> f.page, ok |-> ok, data |-> data])

\* await fetch(...) resolves: res.json() is called.
FetchResolve ==
    \E f \in inflight :
        /\ f.stage = "fetch"
        /\ inflight' = (inflight \ {f}) \cup {[f EXCEPT !.stage = "json"]}
        /\ UNCHANGED << threw, skipped, images, page, loading, dirty, rPage, rLoading,
                        rEnabled, rCb, effPending, fetchDep, hookDeps,
                        cleanup, refCur, mounted, observers, stale, visible,
                        requested, settled, calls, busyCall >>

\* A slip: the new records are put in front.
Prepended(prev, photos) == photos \o prev

\* The new item collection: (prev) => [...prev, ...data.photos].
Appended(prev, photos) == prev \o photos

\* A slip: the in-flight flag is not cleared after a success.
JsonResolveKeepsFlag ==
    \E f \in inflight, data \in Responses :
        /\ f.stage = "json"
        /\ Settle(f, TRUE, data)
        /\ images' = Appended(images, data)
        /\ dirty' = TRUE
        /\ UNCHANGED << threw, skipped, page, loading, rPage, rLoading,
                        rEnabled, rCb, effPending, fetchDep, hookDeps,
                        cleanup, refCur, mounted, observers, stale, visible,
                        requested, calls, busyCall >>

\* await res.json() resolves with data:
\* setImages((prev) => [...prev, ...data.photos]); setLoading(false).
JsonResolve ==
    \E f \in inflight, data \in Responses :
        /\ f.stage = "json"
        /\ Settle(f, TRUE, data)
        /\ images' = Appended(images, data)
        /\ loading' = FALSE
        /\ dirty' = TRUE
        /\ UNCHANGED << threw, skipped, page, rPage, rLoading, rEnabled, rCb, effPending,
                        fetchDep, hookDeps, cleanup, refCur, mounted,
                        observers, stale, visible, requested, calls,
                        busyCall >>

\* The request, or the parse of its body, rejects: fetchImages has no catch
\* and no finally, so its promise rejects and nothing else runs.
Reject ==
    \E f \in inflight :
        /\ Settle(f, FALSE, << >>)
        /\ UNCHANGED << threw, skipped, images, page, loading, dirty, rPage, rLoading,
                        rEnabled, rCb, effPending, fetchDep, hookDeps,
                        cleanup, refCur, mounted, observers, stale, visible,
                        requested, calls, busyCall >>

\* App has been rendered and committed for the first time; its effects have
\* not run yet.
Init ==
    /\ images = << >>
    /\ page = 1
    /\ loading = FALSE
    /\ dirty = FALSE
    /\ rPage = 1
    /\ rLoading = FALSE
    /\ rEnabled = TRUE
    /\ rCb = NewCallback
    /\ effPending = TRUE
    /\ fetchDep = 0
    /\ hookDeps = [has |-> FALSE, en |-> FALSE]
    /\ cleanup = NoCleanup
    /\ refCur = Sentinel
    /\ mounted = TRUE
    /\ observers = {}
    /\ stale = 0
    /\ visible \in SUBSET {Sentinel}
    /\ inflight = {}
    /\ requested = << >>
    /\ settled = << >>
    /\ calls = 0
    /\ busyCall = FALSE
    /\ skipped = {}
    /\ threw = FALSE

Next ==
    \/ FlushEffects
    \/ Render
    \/ Scroll(Sentinel)
    \/ UpdateObservations
    \/ Notify
    \/ NotifyStale
    \/ FetchResolve
    \/ JsonResolve
    \/ Reject

Spec == Init /\ [][Next]_vars

\* App while the sentinel stays in the viewport and every request resolves.
\* React runs the work it has scheduled, the browser takes its samples and
\* delivers its notifications, and the provider answers: each of these steps
\* is taken if it stays possible.
PagingInit == Init /\ visible = {Sentinel}

PagingNext ==
    \/ FlushEffects
    \/ Render
    \/ UpdateObservations
    \/ Notify
    \/ NotifyStale
    \/ FetchResolve
    \/ JsonResolve

PagingSpec ==
    /\ PagingInit
    /\ [][PagingNext]_vars
    /\ WF_vars(FlushEffects)
    /\ WF_vars(Render)
    /\ WF_vars(UpdateObservations)
    /\ WF_vars(Notify)
    /\ WF_vars(NotifyStale)
    /\ WF_vars(FetchResolve)
    /\ WF_vars(JsonResolve)

-----------------------------------------------------------------------------
(* A host component: any component that calls                              *)
(* useInfiniteScroll(callback, enabled) and attaches the handle as it      *)
(* likes.  Its callback is counted in calls.                               *)

\* A render of the host and its commit: it passes the callback of the last
\* run of the effect or another one, any enabled, and the commit attaches the
\* handle to an element or to none.
HostRender(cb, en, el) ==
    /\ mounted
    /\ ~effPending
    /\ rCb' = cb
    /\ rEnabled' = en
    /\ refCur' = el
    /\ effPending' = TRUE
    /\ UNCHANGED << threw, appVars, page, calls, hookDeps, cleanup, mounted,
                    observers, stale, visible >>

\* The passive effects of the host's committed render.
HostFlushEffects ==
    /\ effPending
    /\ effPending' = FALSE
    /\ \E keep \in KeepChoices : HookEffect(keep)
    /\ UNCHANGED << appVars, page, calls, rEnabled, refCur, mounted,
                    visible >>

\* The host is unmounted: the cleanup of the effect's last run is run.
HostUnmount ==
    /\ mounted
    /\ ~effPending
    /\ mounted' = FALSE
    /\ \E keep \in KeepChoices :
           /\ observers' = RunCleanup(observers, cleanup)
           /\ stale' = stale + CleanupLeaves(observers, cleanup, keep)
    /\ threw' = (threw \/ CleanupThrows(cleanup))
    /\ cleanup' = NoCleanup
    /\ refCur' = NoElement
    /\ UNCHANGED << appVars, page, calls, rEnabled, rCb, effPending,
                    hookDeps, visible >>

\* The host's callback is invoked.
HostCallback ==
    /\ calls < MaxCalls
    /\ calls' = calls + 1

\* The browser notifies one of the host's observers.
HostNotify ==
    \E o \in observers :
        /\ Deliver(o)
        /\ IF Fires(o.queue) THEN HostCallback ELSE UNCHANGED calls
        /\ UNCHANGED << threw, appVars, page, rEnabled, rCb, effPending, hookDeps,
                        cleanup, refCur, mounted, stale, visible >>

\* The browser delivers the entries an observer of the host had queued when
\* it was unobserved.
HostNotifyStale ==
    /\ stale > 0
    /\ stale' = stale - 1
    /\ HostCallback
    /\ UNCHANGED << threw, appVars, page, rEnabled, rCb, effPending, hookDeps,
                    cleanup, refCur, mounted, observers, visible >>

\* The host has been rendered and committed for the first time; its effects
\* have not run yet.
HostInit ==
    /\ images = << >>
    /\ page = 1
    /\ loading = FALSE
    /\ dirty = FALSE
    /\ rPage = 1
    /\ rLoading = FALSE
    /\ rEnabled \in BOOLEAN
    /\ rCb = NewCallback
    /\ effPending = TRUE
    /\ fetchDep = 0
    /\ hookDeps = [has |-> FALSE, en |-> FALSE]
    /\ cleanup = NoCleanup
    /\ refCur \in {NoElement} \cup Elements
    /\ mounted = TRUE
    /\ observers = {}
    /\ stale = 0
    /\ visible \in SUBSET Elements
    /\ inflight = {}
    /\ requested = << >>
    /\ settled = << >>
    /\ calls = 0
    /\ busyCall = FALSE
    /\ skipped = {}
    /\ threw = FALSE

HostNext ==
    \/ \E cb \in {SameCallback, NewCallback}, en \in BOOLEAN,
          el \in {NoElement} \cup Elements : HostRender(cb, en, el)
    \/ HostFlushEffects
    \/ HostUnmount
    \/ \E e \in Elements : Scroll(e)
    \/ UpdateObservations
    \/ HostNotify
    \/ HostNotifyStale

HostSpec == HostInit /\ [][HostNext]_vars

-----------------------------------------------------------------------------
(* Properties.                                                             *)

\* No effect is pending, no render is scheduled and no request is in flight.
Quiet == ~effPending /\ ~dirty /\ inflight = {}

\* C1: as long as every invocation of the trigger callback came while no
\* request was in flight, the pages requested are 1, 2, 3, ... in this order,
\* none skipped and none repeated, and once App is quiet there is one request
\* for the mount and one for each invocation.
C1_PagesInOrder ==
    ~busyCall =>
        /\ \A i \in 1 .. Len(requested) : requested[i] = i
        /\ Quiet => Len(requested) = calls + 1

\* C2: at most one request to the provider is outstanding.
C2_AtMostOneInFlight == Cardinality(inflight) <= 1

\* The case of C2: the trigger callback was invoked while a request was in
\* flight, the fetch effect ran for the new page while the request was still
\* outstanding, and it issued nothing.
C2_Witness ==
    /\ busyCall
    /\ inflight # {}
    /\ fetchDep > requested[Len(requested)]

\* C3: an invocation of the trigger callback while the in-flight flag is true
\* leaves the page number as it is, and no request is issued while the flag
\* is true.
C3_NoAdvanceWhileLoading ==
    [][loading => /\ calls' > calls => page' = page
                  /\ requested' = requested]_vars

\* C4: the in-flight flag is true while a request is outstanding, and it is
\* false once the request has settled, by resolving or by rejecting.
C4_FlagFollowsFetch ==
    /\ [](inflight # {} => loading)
    /\ [][Len(settled') > Len(settled) => ~loading']_vars

\* The entries of a list that report the target as intersecting.
Entering(queue) == Cardinality({i \in 1 .. Len(queue) : queue[i]})

\* The browser notifies observer o in this step.
Notified(o) ==
    /\ o \in observers
    /\ o.queue # << >>
    /\ [o EXCEPT !.queue = << >>] \in observers'

\* C5: while the trigger is enabled, the callback is invoked once for each
\* entry that reports the sentinel as intersecting, and for no other entry.
C5_OncePerTransition ==
    [][\A o \in observers :
          (hookDeps.en /\ Notified(o)) => calls' = calls + Entering(o.queue)]_vars

\* C6: once the effect has run with enabled false no observation exists, and
\* the callback is never invoked while the enabled given to the hook is false.
C6_DisabledIsSilent ==
    /\ []((hookDeps.has /\ ~hookDeps.en) => observers = {})
    /\ [][~rEnabled => calls' = calls]_vars

\* The observer was made by the first enabled run of the effect after a
\* disabled one, and its target has been intersecting in its only sample.
FirstSampleIn(o) == o.after = "off" /\ ~o.again /\ o.prev = "in"

\* C7: when the effect runs enabled after a disabled run, with an element
\* attached, exactly one observation exists afterwards and it is a new one
\* (no sample, nothing queued); its first sample of an intersecting sentinel
\* queues one entry although the sentinel has not moved, and the notification
\* for it invokes the callback once.
C7_ReEnableFiresOnce ==
    [][/\ (hookDeps.has /\ ~hookDeps.en /\ hookDeps'.en /\ refCur # NoElement)
          => \E o \in observers' : /\ observers' = {o}
                                   /\ o.target = refCur
                                   /\ o.prev = "none"
                                   /\ o.queue = << >>
       /\ \A o \in observers :
            /\ (FirstSampleIn(o) /\ o.queue # << >>) => o.queue = <<TRUE>>
            /\ (FirstSampleIn(o) /\ Notified(o)) => calls' = calls + 1]_vars

\* The case of C7: the observer made on re-enabling has sampled the sentinel
\* once, found it intersecting, and its notification has invoked the callback,
\* which nothing else has invoked.
C7_Witness ==
    /\ calls = 1
    /\ stale = 0
    /\ \E o \in observers : FirstSampleIn(o) /\ o.queue = << >>

\* C8: at most one observation is live, and none once the effect has run with
\* enabled false.
C8_OneObservation ==
    /\ Cardinality(observers) <= 1
    /\ (hookDeps.has /\ ~hookDeps.en) => observers = {}

\* The case of C8: the effect ran enabled right after an enabled run (the
\* callback changed); the observer it made has not been sampled yet, so it
\* was the observer of an earlier run that invoked the callback.
C8_Witness ==
    /\ calls > 0
    /\ stale = 0
    /\ \E o \in observers : o.after = "on" /\ o.prev = "none"

\* The records of the requests that resolved, in the order they settled.
RECURSIVE Arrived(_)
Arrived(log) ==
    IF log = << >> THEN << >>
    ELSE (IF Head(log).ok THEN Head(log).data ELSE << >>) \o Arrived(Tail(log))

IsPrefix(a, b) == Len(a) <= Len(b) /\ SubSeq(b, 1, Len(a)) = a

\* C9: the item collection is the concatenation of the bodies of the resolved
\* requests, in the order they settled, and it only grows at its end.
C9_ImagesAreArrivals ==
    /\ [](images = Arrived(settled))
    /\ [][IsPrefix(images, images')]_vars

\* The case of C9: two pages arrived, the second repeats a record of the
\* first.
C9_Witness == Len(settled) = 2 /\ images = <<1, 2, 1>>

\* C10: whenever App has nothing left to render or to flush, the trigger holds
\* no observation exactly if a request is outstanding; and while a request is
\* outstanding the callback is not invoked and the page number does not change.
C10_DisabledExactlyWhileFetching ==
    /\ []((~effPending /\ ~dirty) => (observers = {} <=> inflight # {}))
    /\ [][inflight # {} => (calls' = calls /\ page' = page)]_vars

\* The effect of the hook has run for the committed render and nothing threw.
EffectsRun == mounted /\ ~effPending /\ hookDeps.has /\ ~threw

\* C11: whenever the hook is enabled and the handle holds an element, once the
\* effects of the committed render have run an observer of the hook observes
\* that element, also when the element was attached after an activation that
\* found none.
C11_ObservesAttached ==
    (EffectsRun /\ rEnabled /\ refCur # NoElement)
        => \E o \in observers : o.target = refCur

\* C12: once the effects of the committed render have run, and after the
\* unmount, no observer of the hook observes an element the handle does not
\* hold (one it held before).
C12_ReleasesDetached ==
    ~effPending => \A o \in observers : o.target = refCur

\* Some request has rejected.
Failed == \E i \in 1 .. Len(settled) : ~settled[i].ok

\* C13: once a request has rejected, the in-flight flag stays set, the hook
\* is not enabled again, the trigger callback is not invoked, the page does
\* not change and no request is issued.
C13_FrozenAfterReject ==
    [][Failed => /\ loading'
                 /\ ~(~hookDeps.en /\ hookDeps'.en)
                 /\ calls' = calls
                 /\ page' = page
                 /\ requested' = requested]_vars

\* C14: the page is 1 at the start and positive ever after; a step changes
\* it only by adding 1, and does so exactly when it invokes the trigger
\* callback (once per invocation).
C14_PageCountsCalls ==
    /\ page = 1
    /\ [](page >= 1)
    /\ [][/\ page' >= page
          /\ page' # page => page' = page + 1
          /\ page' # page <=> calls' # calls
          /\ calls' # calls => calls' = calls + 1]_vars

\* Two invocations between two renders of App: each has added 1.
C14_Witness == calls = 2 /\ page = 3 /\ rPage = 1

\* The last run of the hook's effect was enabled and found no element.
NothingToWatch == cleanup.has /\ cleanup.el = NoElement

\* A step that runs the cleanup of the effect's last run: the effect runs
\* again, or the host is unmounted.
Releases ==
    \/ effPending /\ ~effPending' /\ HookDepsChanged
    \/ mounted /\ ~mounted'

\* C15: an activation that finds no element attached starts no observation
\* and throws nothing, and the release that follows it unobserves nothing,
\* leaves no notification pending and throws nothing.
C15_NoElementIsNoError ==
    /\ [](~threw /\ (NothingToWatch => observers = {}))
    /\ [][(NothingToWatch /\ Releases)
             => /\ stale' = stale
                /\ ~threw'
                /\ \A o \in observers' : cleanup'.has /\ o.id = cleanup'.id]_vars

\* Activated with no element while an element is in the viewport, and the
\* commit that disables the hook is done: its effects are about to run.
C15_Witness ==
    NothingToWatch /\ effPending /\ ~rEnabled /\ visible # {} /\ mounted

\* C16: when the fetch effect runs for a changed page and the loading of its
\* render is true, that flush of effects issues no request and leaves the
\* in-flight flag, the item collection and the page as they were.
C16_SkipChangesNothing ==
    [][(effPending /\ ~effPending' /\ fetchDep # rPage /\ rLoading)
          => /\ requested' = requested
             /\ inflight' = inflight
             /\ loading' = loading
             /\ images' = images
             /\ page' = page]_vars

\* The fetch effect has just returned at its guard for the page of the
\* committed render, while the request before it is still in flight.
C16_Witness ==
    /\ ~effPending
    /\ fetchDep = rPage
    /\ rPage \in skipped
    /\ \A i \in 1 .. Len(requested) : requested[i] # rPage
    /\ inflight # {}

\* C17: while the sentinel stays in the viewport and every request resolves,
\* paging does not stop.  Up to the bound of the model: every count of
\* invocations is followed by the next one; after every success that leaves
\* an invocation to come, one more request is issued; and after every
\* success, before the next one, the hook's effect has run enabled.
C17_KeepsPaging ==
    /\ \A n \in 0 .. MaxCalls - 1 : (calls = n) ~> (calls = n + 1)
    /\ \A k \in 1 .. MaxCalls :
           (Len(settled) = k /\ Len(requested) = k /\ calls < MaxCalls)
               ~> (Len(requested) > k)
    /\ \A k \in 1 .. MaxCalls + 1 :
           (Len(settled) = k /\ Len(requested) = k)
               ~> (Len(settled) = k /\ hookDeps.en /\ ~effPending /\ ~rLoading)

\* Two pages have come back empty, and the hook is enabled again.
C17_Witness ==
    /\ Len(settled) >= 2
    /\ images = << >>
    /\ hookDeps.en
    /\ ~effPending
    /\ ~dirty
    /\ ~loading

\* C18: the pages requested are strictly increasing, so none is requested
\* twice.
C18_RequestsIncrease ==
    \A i, j \in 1 .. Len(requested) : i < j => requested[i] < requested[j]

\* The trigger callback was invoked while a request was in flight, and a
\* request was issued after that one.
C18_Witness ==
    /\ busyCall
    /\ Len(requested) >= 2
    /\ requested[2] > requested[1] + 1

\* C19: a page whose fetch effect returned at its guard is not among the
\* pages requested nor among the settled ones, and every request issued later
\* is for a page after it.
C19_SkippedNeverFetched ==
    /\ [](\A p \in skipped :
             /\ p <= page
             /\ \A i \in 1 .. Len(requested) : requested[i] # p
             /\ \A i \in 1 .. Len(settled) : settled[i].page # p)
    /\ [][\A p \in skipped :
             requested' # requested => requested'[Len(requested')] > p]_vars

\* A page was skipped, and the records of the page after it have entered the
\* item collection.
C19_Witness ==
    \E p \in skipped :
        \E i \in 1 .. Len(settled) :
            /\ settled[i].page = p + 1
            /\ settled[i].ok
            /\ settled[i].data # << >>
            /\ images # << >>

=============================================================================
